---- MODULE Spec2Model ----
(***************************************************************************)
(* State-machine model of the voting_dao program (programs/voting_dao/src/ *)
(* lib.rs): the three instructions create_proposal, cast_vote and          *)
(* delete_proposal, their account-validation structs, and the accounts     *)
(* they create, change and close.                                          *)
(*                                                                         *)
(* Every instruction runs as one transaction: account validation (the      *)
(* #[derive(Accounts)] struct, including `init`), then the handler, then   *)
(* the exit step (`close`).  A transaction that returns an error has no    *)
(* effect on any account, so each action below is the whole transaction.   *)
(***************************************************************************)
EXTENDS Integers, Sequences, FiniteSets, TLC

VARIABLES
    proposals,  \* Proposal accounts: function from the addresses in use to their data
    votes,      \* Voting accounts: function from the addresses in use to their data
    clock,      \* Clock sysvar, unix_timestamp (never negative, never moving backwards)
    res,        \* the last transaction executed and what it returned
    pool        \* cast_vote transactions in flight (specification SpecConc only)

vars == <<proposals, votes, clock, res, pool>>

----------------------------------------------------------------------------
(* Bounds and input sets                                                   *)

\* Largest date_start / date_end a caller passes.
MaxDate == 1

\* Grace period before a closed proposal may be deleted (lib.rs:124).
THIRTY_DAYS == 2592000

\* Largest value of Choice.count, a u16 (lib.rs:200).
U16_MAX == 65535

\* Signers (public keys).
Users == {"alice", "bob"}

\* Pubkey::default(), the value of a Pubkey field nobody wrote.
DefaultPubkey == "11111111111111111111111111111111"

\* Titles, descriptions and choice names are short: within the 32 bytes of a
\* seed and the 64 bytes of max_len.
Titles == {"P1", "P2"}

Descriptions == {"d1"}

\* Choice lists callers pass: too short, shortest legal, longest legal (with
\* a repeated name), too long.
ChoiceLists ==
    { <<"A">>,
      <<"A", "B">>,
      <<"A", "C", "A", "D", "E">>,
      <<"A", "B", "C", "D", "E", "F">> }

\* Choice names voters pass ("Z" is in no list).
Targets == {"A", "B", "Z"}

Dates == 0..MaxDate

\* Clock readings: every date, the second after the last one, and for every
\* date_end the last second of its grace period and the first one after it.
TimePoints == (0..(MaxDate + 1)) \cup ((THIRTY_DAYS - 1)..(THIRTY_DAYS + MaxDate))

----------------------------------------------------------------------------
(* Addresses                                                               *)

\* Program-derived address of a proposal: seeds [b"proposal", title].
ProposalPda(title) == <<"proposal", title>>

\* Faulty variant of VotePda: the signer's key is left out of the seeds.
VotePda_NoSigner(proposalKey, signerKey) == <<"vote", proposalKey>>

\* Program-derived address of a vote: seeds [b"vote", proposal key, signer key].
VotePda(proposalKey, signerKey) == <<"vote", proposalKey, signerKey>>

ProposalKeys == { ProposalPda(t) : t \in Titles }

----------------------------------------------------------------------------
(* Account data                                                            *)

\* struct Choice
Choice(name, count) == [name |-> name, count |-> count]

\* struct Proposal
Proposal(description, title, vts, date_start, date_end, creator) ==
    [description |-> description, title |-> title, votes |-> vts,
     date_start |-> date_start, date_end |-> date_end, creator |-> creator]

\* struct Voting, as `init` leaves it: zeroed data, which no handler writes.
Voting == [choice |-> "", voter |-> DefaultPubkey, proposal |-> DefaultPubkey]

\* Sum of the counts of a list of choices.
RECURSIVE SumCounts(_)
SumCounts(vts) ==
    IF vts = <<>> THEN 0 ELSE Head(vts).count + SumCounts(Tail(vts))

\* A map with one more (or one rewritten) entry, and with one entry less.
Put(map, key, data) ==
    [k \in (DOMAIN map) \cup {key} |-> IF k = key THEN data ELSE map[k]]

Drop(map, key) == [k \in (DOMAIN map) \ {key} |-> map[k]]

\* What a transaction leaves: its return value and the two account maps.
Outcome(result, props, vts) == [result |-> result, proposals |-> props, votes |-> vts]

\* Faulty variant of TxOutcome: the accounts written before the error stay written.
TxOutcome_NoRollback(result, props, vts, props2, vts2) == Outcome(result, props2, vts2)

\* A transaction whose instruction returned `result` with the account maps
\* written to props2 and vts2: the writes stay only if it returned Ok(()),
\* an Err(..) leaves the maps props and vts it started from.
TxOutcome(result, props, vts, props2, vts2) ==
    IF result = "Ok" THEN Outcome(result, props2, vts2) ELSE Outcome(result, props, vts)

----------------------------------------------------------------------------
(* create_proposal                                                         *)

\* Faulty variant of ChoicesLenOk: the upper bound is exclusive.
ChoicesLenOk_Below5(choices) == Len(choices) >= 2 /\ Len(choices) < 5

\* require!(choices.len() >= 2 && choices.len() <= 5, ...)
ChoicesLenOk(choices) == Len(choices) >= 2 /\ Len(choices) <= 5

\* require!(date_start <= date_end, ...)
DatesConform(date_start, date_end) == date_start <= date_end

\* choices.into_iter().map(|name| Choice { name, count: 0 }).collect()
NewChoices(choices) == [i \in 1..Len(choices) |-> Choice(choices[i], 0)]

\* The zeroed data of a freshly allocated proposal account.
EmptyProposal == Proposal("", "", <<>>, 0, 0, DefaultPubkey)

\* The handler: its return value and the data of the new account when it
\* returns.
create_proposal(signer, title, description, choices, date_start, date_end) ==
    IF ~ChoicesLenOk(choices)
    THEN [result |-> "InvalidNumberOfChoices", account |-> EmptyProposal]
    ELSE IF ~DatesConform(date_start, date_end)
    THEN [result |-> "DateNotConform", account |-> EmptyProposal]
    ELSE [result |-> "Ok",
          account |-> Proposal(description, title, NewChoices(choices),
                               date_start, date_end, signer)]

\* Faulty variant of ProposalInitOk: the account is taken over when the address is in
\* use (init_if_needed instead of init).
ProposalInitOk_IfNeeded(props, key) == TRUE

\* `init` finds the address free (the system program refuses to allocate an
\* account that is in use).
ProposalInitOk(props, key) == key \notin DOMAIN props

\* The transaction: InitializeProposal validates (and allocates) the
\* accounts, then the handler runs; an error from either leaves nothing.
InitializeProposal(props, vts, signer, title, description, choices, date_start, date_end) ==
    LET key == ProposalPda(title)
        h   == create_proposal(signer, title, description, choices, date_start, date_end)
    IN  IF ~ProposalInitOk(props, key)
        THEN Outcome("AccountAlreadyInUse", props, vts)
        ELSE TxOutcome(h.result, props, vts, Put(props, key, h.account), vts)

----------------------------------------------------------------------------
(* cast_vote                                                               *)

\* Faulty variant of VoteStarted: the window opens one second after date_start.
VoteStarted_After(p, timestamp) == p.date_start < timestamp

\* require!(proposal.date_start <= timestamp, ...)
VoteStarted(p, timestamp) == p.date_start <= timestamp

\* Faulty variant of VoteNotOver: the end bound is inclusive.
VoteNotOver_Inclusive(p, timestamp) == p.date_end >= timestamp

\* require!(proposal.date_end > timestamp, ...)
VoteNotOver(p, timestamp) == p.date_end > timestamp

\* proposal.votes.iter_mut().find(|x| x.name == target): the position of the
\* first choice with that name, 0 for None.
FindChoice(vts, target) ==
    LET hits == { i \in 1..Len(vts) : vts[i].name = target }
    IN  IF hits = {} THEN 0
        ELSE CHOOSE i \in hits : \A j \in hits : i <= j

\* Faulty variant of AddOne: every choice with the name of choice i is counted.
AddOne_EveryMatch(vts, i) ==
    { [j \in 1..Len(vts) |->
         IF vts[j].name = vts[i].name THEN [vts[j] EXCEPT !.count = @ + 1] ELSE vts[j]] }

\* Faulty variant of AddOne: the choice voted for also changes place with the first one.
AddOne_ToFront(vts, i) ==
    { [j \in 1..Len(vts) |->
         IF j = 1 THEN [vts[i] EXCEPT !.count = @ + 1]
         ELSE IF j = i THEN vts[1]
         ELSE vts[j]] }

\* choice.unwrap().count += 1 on a u16.  Past U16_MAX the build decides: with
\* overflow checks the handler panics, without them the count wraps to 0.
\* The outcomes are the choice lists the statement can leave, <<>> for a panic.
AddOne(vts, i) ==
    IF vts[i].count < U16_MAX
    THEN { [vts EXCEPT ![i].count = @ + 1] }
    ELSE { <<>>, [vts EXCEPT ![i].count = 0] }

\* The handler on the data of the proposal account: every return value it
\* can produce, each with the data of the proposal account it leaves.
cast_vote(p, timestamp, target) ==
    IF ~VoteStarted(p, timestamp)
    THEN { [result |-> "VoteNotOpen", account |-> p] }
    ELSE IF ~VoteNotOver(p, timestamp)
    THEN { [result |-> "VoteClosed", account |-> p] }
    ELSE LET i == FindChoice(p.votes, target)
         IN  IF i = 0
             THEN { [result |-> "InvalidChoice", account |-> p] }
             ELSE { IF v = <<>>
                    THEN [result |-> "ProgramFailedToComplete", account |-> p]
                    ELSE [result |-> "Ok", account |-> [p EXCEPT !.votes = v]]
                    : v \in AddOne(p.votes, i) }

\* Faulty variant of VoteInitOk: the vote account is reused when its address is in
\* use (init_if_needed instead of init).
VoteInitOk_IfNeeded(vts, key) == TRUE

\* `init` of the vote account finds its address free.
VoteInitOk(vts, key) == key \notin DOMAIN vts

\* The transaction: InitializeVote loads the proposal account, allocates the
\* vote account at the address derived from (proposal, signer), then the
\* handler runs at the clock's reading (unix_timestamp as u64; the reading
\* is never negative).  An error anywhere leaves no account changed, the
\* freshly allocated vote account included.
InitializeVote(props, vts, clk, signer, proposalKey, target) ==
    LET key == VotePda(proposalKey, signer)
    IN  IF proposalKey \notin DOMAIN props
        THEN { Outcome("AccountNotInitialized", props, vts) }
        ELSE IF ~VoteInitOk(vts, key)
        THEN { Outcome("AccountAlreadyInUse", props, vts) }
        ELSE { TxOutcome(h.result, props, vts,
                         Put(props, proposalKey, h.account), Put(vts, key, Voting))
               : h \in cast_vote(props[proposalKey], clk, target) }

----------------------------------------------------------------------------
(* delete_proposal                                                         *)

\* require!(proposal.creator == ctx.accounts.signer.key(), ...)
IsCreator(p, signer) == p.creator = signer

\* require!(proposal.date_end < timestamp, ...)
VoteEnded(p, timestamp) == p.date_end < timestamp

\* Faulty variant of OldEnough: the grace period must be exceeded, not just reached.
OldEnough_Strict(p, timestamp) == timestamp - p.date_end > THIRTY_DAYS

\* Faulty variant of OldEnough: the grace period is counted from date_start.
OldEnough_FromStart(p, timestamp) == timestamp - p.date_start >= THIRTY_DAYS

\* Faulty variant of OldEnough: the delete is accepted only at the very end of the grace period.
OldEnough_Exactly(p, timestamp) == timestamp - p.date_end = THIRTY_DAYS

\* require!(timestamp - proposal.date_end >= THIRTY_DAYS, ...); evaluated
\* only when date_end < timestamp, so the u64 subtraction cannot underflow.
OldEnough(p, timestamp) == timestamp - p.date_end >= THIRTY_DAYS

\* Faulty variant of delete_proposal: the timing checks come before the creator check.
delete_proposal_TimingFirst(p, signer, timestamp) ==
    IF ~VoteEnded(p, timestamp) THEN "VoteNotEnded"
    ELSE IF ~OldEnough(p, timestamp) THEN "TooRecentToDelete"
    ELSE IF ~IsCreator(p, signer) THEN "NotAuthorized"
    ELSE "Ok"

\* The handler: its return value ("Ok" once proposal.close() has run).
delete_proposal(p, signer, timestamp) ==
    IF ~IsCreator(p, signer) THEN "NotAuthorized"
    ELSE IF ~VoteEnded(p, timestamp) THEN "VoteNotEnded"
    ELSE IF ~OldEnough(p, timestamp) THEN "TooRecentToDelete"
    ELSE "Ok"


\* Faulty variant of DeleteProposal: the VoteRecords of the proposal are closed with it.
DeleteProposal_WithVotes(props, vts, clk, signer, proposalKey) ==
    IF proposalKey \notin DOMAIN props
    THEN Outcome("AccountNotInitialized", props, vts)
    ELSE TxOutcome(delete_proposal(props[proposalKey], signer, clk), props, vts,
                   Drop(props, proposalKey),
                   [a \in { VotePda(k, s) : k \in ProposalKeys \ {proposalKey}, s \in Users }
                            \cap DOMAIN vts |-> vts[a]])

\* The transaction: DeleteProposal loads the proposal account, the handler
\* runs at the clock's reading (unix_timestamp as u64, never negative), and
\* on success the account is closed (close = signer): its address is free
\* again and no other account is touched.
DeleteProposal(props, vts, clk, signer, proposalKey) ==
    IF proposalKey \notin DOMAIN props
    THEN Outcome("AccountNotInitialized", props, vts)
    ELSE TxOutcome(delete_proposal(props[proposalKey], signer, clk), props, vts,
                   Drop(props, proposalKey), vts)

----------------------------------------------------------------------------
(* The state machine                                                       *)

\* The record of a transaction: the instruction and its result.
Res(op, result) == [op |-> op, result |-> result]

\* A cast_vote transaction in flight: its signer, the proposal account and
\* the choice name it passes; once executed, its result and whether the
\* proposal's window was open at the clock reading it ran at.
PendingTx(signer, proposalKey, target) ==
    [signer |-> signer, proposal |-> proposalKey, target |-> target,
     status |-> "pending", open |-> FALSE]

NoRace == [txs |-> <<>>, before |-> <<>>]

Init ==
    /\ proposals = <<>>
    /\ votes = <<>>
    /\ clock = 0
    /\ res = Res("none", "")
    /\ pool = NoRace

CreateProposalStep ==
    \E signer \in Users, title \in Titles, description \in Descriptions,
       choices \in ChoiceLists, date_start \in Dates, date_end \in Dates :
        LET o == InitializeProposal(proposals, votes, signer, title, description,
                                    choices, date_start, date_end)
        IN  /\ proposals' = o.proposals
            /\ votes' = o.votes
            /\ res' = Res("create_proposal", o.result)
            /\ UNCHANGED <<clock, pool>>

CastVoteStep ==
    \E signer \in Users, proposalKey \in ProposalKeys, target \in Targets :
        \E o \in InitializeVote(proposals, votes, clock, signer, proposalKey, target) :
            /\ proposals' = o.proposals
            /\ votes' = o.votes
            /\ res' = Res("cast_vote", o.result)
            /\ UNCHANGED <<clock, pool>>

DeleteProposalStep ==
    \E signer \in Users, proposalKey \in ProposalKeys :
        LET o == DeleteProposal(proposals, votes, clock, signer, proposalKey)
        IN  /\ proposals' = o.proposals
            /\ votes' = o.votes
            /\ res' = Res("delete_proposal", o.result)
            /\ UNCHANGED <<clock, pool>>

\* The clock moves forward.
Tick ==
    \E t \in TimePoints :
        /\ t > clock
        /\ clock' = t
        /\ res' = Res("tick", "")
        /\ UNCHANGED <<proposals, votes, pool>>

\* Two cast_vote transactions on one proposal are sent at the same time,
\* each one valid on its own: the window is open, the proposal has the
\* choice, and the voter has no VoteRecord there.  The pool keeps the
\* proposal's choices as they are now.
SubmitVotes ==
    /\ pool = NoRace
    /\ \E k \in DOMAIN proposals, s1 \in Users, s2 \in Users,
          tg1 \in Targets, tg2 \in Targets :
         /\ VoteStarted(proposals[k], clock)
         /\ VoteNotOver(proposals[k], clock)
         /\ FindChoice(proposals[k].votes, tg1) # 0
         /\ FindChoice(proposals[k].votes, tg2) # 0
         /\ VotePda(k, s1) \notin DOMAIN votes
         /\ VotePda(k, s2) \notin DOMAIN votes
         /\ pool' = [txs |-> << PendingTx(s1, k, tg1), PendingTx(s2, k, tg2) >>,
                     before |-> proposals[k].votes]
         /\ res' = Res("submit", "")
         /\ UNCHANGED <<proposals, votes, clock>>

\* The runtime executes one of the transactions in flight, whole, in the
\* state the transactions before it left.
ExecuteVote ==
    \E i \in DOMAIN pool.txs :
        LET tx == pool.txs[i]
        IN  /\ tx.status = "pending"
            /\ \E o \in InitializeVote(proposals, votes, clock, tx.signer,
                                        tx.proposal, tx.target) :
                  /\ proposals' = o.proposals
                  /\ votes' = o.votes
                  /\ res' = Res("cast_vote", o.result)
                  /\ pool' = [pool EXCEPT
                                !.txs[i].status = o.result,
                                !.txs[i].open =
                                    /\ tx.proposal \in DOMAIN proposals
                                    /\ VoteStarted(proposals[tx.proposal], clock)
                                    /\ VoteNotOver(proposals[tx.proposal], clock)]
                  /\ UNCHANGED clock

Next ==
    \/ CreateProposalStep
    \/ CastVoteStep
    \/ DeleteProposalStep
    \/ Tick

Spec == Init /\ [][Next]_vars

\* A proposal late in a busy vote: its window is open and signers other than
\* Users, whose VoteRecords the model does not follow, have brought the count
\* of its first choice to the last or the last but one value of a u16.
InitBusy ==
    /\ \E n \in {U16_MAX - 1, U16_MAX} :
         proposals = Put(<<>>, ProposalPda("P1"),
                         Proposal("d1", "P1", <<Choice("A", n), Choice("B", 0)>>,
                                  0, 1, "alice"))
    /\ votes = <<>>
    /\ clock = 0
    /\ res = Res("none", "")
    /\ pool = NoRace

SpecBusy == InitBusy /\ [][Next]_vars

\* The clock keeps advancing: the Clock sysvar moves with the slots the
\* cluster produces, whatever transactions are or are not sent.
SpecLive == Init /\ [][Next]_vars /\ WF_vars(Tick)

\* Transactions in flight: the runtime runs the transactions that write the
\* same proposal account one after the other, in either order.  The votes
\* of this specification are the ones in flight; delete_proposal is left to
\* Spec (it succeeds only THIRTY_DAYS after the window of the votes closed).
NextConc ==
    \/ CreateProposalStep
    \/ Tick
    \/ SubmitVotes
    \/ ExecuteVote

SpecConc == Init /\ [][NextConc]_vars

----------------------------------------------------------------------------
(* The transactions a caller can send from the current state               *)

CreateNow(signer, title, description, choices, date_start, date_end) ==
    InitializeProposal(proposals, votes, signer, title, description, choices,
                       date_start, date_end)

CastVoteNow(signer, proposalKey, target) ==
    InitializeVote(proposals, votes, clock, signer, proposalKey, target)

DeleteNow(signer, proposalKey) ==
    DeleteProposal(proposals, votes, clock, signer, proposalKey)

\* Every outcome of every transaction a caller can send from the current state.
AllOutcomesNow ==
    { CreateNow(s, t, d, c, ds, de) :
        s \in Users, t \in Titles, d \in Descriptions, c \in ChoiceLists,
        ds \in Dates, de \in Dates }
    \cup UNION { CastVoteNow(s, k, tg) : s \in Users, k \in ProposalKeys, tg \in Targets }
    \cup { DeleteNow(s, k) : s \in Users, k \in ProposalKeys }

\* The proposal at proposalKey exists and a delete_proposal signed by its
\* creator at clock reading clk returns Ok.
Deletable(props, vts, clk, proposalKey) ==
    /\ proposalKey \in DOMAIN props
    /\ DeleteProposal(props, vts, clk, props[proposalKey].creator, proposalKey).result = "Ok"

\* The signers that have a VoteRecord at the address derived from proposalKey.
Voters(vts, proposalKey) == { s \in Users : VotePda(proposalKey, s) \in DOMAIN vts }

\* Proposal accounts p and q differ at most in the counts of their choices:
\* same creator, title, description and dates, as many choices, the same
\* name at every position.
SameButCounts(p, q) ==
    /\ q.creator = p.creator
    /\ q.title = p.title
    /\ q.description = p.description
    /\ q.date_start = p.date_start
    /\ q.date_end = p.date_end
    /\ Len(q.votes) = Len(p.votes)
    /\ \A i \in 1..Len(p.votes) : q.votes[i].name = p.votes[i].name

\* The counts of a list of choices, in order.
Counts(vts) == [i \in 1..Len(vts) |-> vts[i].count]

----------------------------------------------------------------------------
(* C1 .. C10                                                               *)

\* C1: a voter votes at most once on a proposal.  A cast_vote succeeds only
\* for a (proposal address, voter) pair that has no VoteRecord and leaves one
\* there; no transaction ever removes a VoteRecord; and while the pair has a
\* VoteRecord, every cast_vote by that voter on that proposal, whatever
\* choice name it passes, fails with the allocation conflict of the vote
\* account (the duplicate-vote conflict) and changes no account.
C1_OneVotePerVoter ==
    /\ \A s \in Users, k \in ProposalKeys, tg \in Targets :
         \A o \in CastVoteNow(s, k, tg) :
            /\ o.result = "Ok" =>
                 /\ VotePda(k, s) \notin DOMAIN votes
                 /\ VotePda(k, s) \in DOMAIN o.votes
            /\ (k \in DOMAIN proposals /\ VotePda(k, s) \in DOMAIN votes) =>
                 /\ o.result = "AccountAlreadyInUse"
                 /\ o.proposals = proposals
                 /\ o.votes = votes
    /\ \A o \in AllOutcomesNow : DOMAIN votes \subseteq DOMAIN o.votes

\* C1 witness: a second cast_vote was refused as a duplicate on the only
\* proposal there is, which holds a counted vote.
C1_Witness ==
    /\ res = Res("cast_vote", "AccountAlreadyInUse")
    /\ \E k \in ProposalKeys :
         /\ DOMAIN proposals = {k}
         /\ Voters(votes, k) # {}
         /\ SumCounts(proposals[k].votes) = Cardinality(Voters(votes, k))

\* C2 (as claimed): for every existing proposal the sum of its choice counts
\* is the number of VoteRecords at the addresses derived from its address.
C2_CountsEqualRecords ==
    \A k \in DOMAIN proposals :
        SumCounts(proposals[k].votes) = Cardinality(Voters(votes, k))

\* C3: one proposal per title.  The proposals in use sit at the address
\* derived from their own title, and a create_proposal for a title in use,
\* by any signer with any arguments, fails with the allocation conflict and
\* changes no account.
C3_OneProposalPerTitle ==
    /\ \A k \in DOMAIN proposals : k = ProposalPda(proposals[k].title)
    /\ \A t \in Titles :
         ProposalPda(t) \in DOMAIN proposals =>
           \A s \in Users, d \in Descriptions, c \in ChoiceLists,
              ds \in Dates, de \in Dates :
                CreateNow(s, t, d, c, ds, de) =
                    Outcome("AccountAlreadyInUse", proposals, votes)

\* C3 witness: a create_proposal was refused for a title in use, and the
\* proposal of that title holds a counted vote.
C3_Witness ==
    /\ res = Res("create_proposal", "AccountAlreadyInUse")
    /\ \E k \in DOMAIN proposals : SumCounts(proposals[k].votes) > 0

\* C4: for a voter with no VoteRecord on an existing proposal and a choice
\* name the proposal has, cast_vote at clock reading t fails with VoteNotOpen
\* when t < date_start, succeeds when date_start <= t < date_end, and fails
\* with VoteClosed when t >= date_end.
C4_VotingWindow ==
    \A s \in Users, k \in DOMAIN proposals, tg \in Targets :
        (VotePda(k, s) \notin DOMAIN votes /\ FindChoice(proposals[k].votes, tg) # 0) =>
            /\ CastVoteNow(s, k, tg) # {}
            /\ \A o \in CastVoteNow(s, k, tg) :
                 o.result = IF clock < proposals[k].date_start THEN "VoteNotOpen"
                            ELSE IF clock < proposals[k].date_end THEN "Ok"
                            ELSE "VoteClosed"

\* C4 witness: the first vote on the only proposal was accepted at exactly
\* t = date_start.
C4_Witness ==
    /\ res = Res("cast_vote", "Ok")
    /\ \E k \in ProposalKeys :
         /\ DOMAIN proposals = {k}
         /\ clock = proposals[k].date_start
         /\ Cardinality(DOMAIN votes) = 1

\* C5: a transaction that fails changes no Proposal and no VoteRecord.  In
\* particular a cast_vote that fails with VoteNotOpen, VoteClosed or
\* InvalidChoice leaves no VoteRecord for its voter, who then still succeeds
\* with any cast_vote on that proposal that names one of its choices at a
\* clock reading inside the window.
C5_FailuresChangeNothing ==
    /\ \A o \in AllOutcomesNow :
         o.result # "Ok" => (o.proposals = proposals /\ o.votes = votes)
    /\ \A s \in Users, k \in ProposalKeys, tg \in Targets :
         \A o \in CastVoteNow(s, k, tg) :
            o.result \in {"VoteNotOpen", "VoteClosed", "InvalidChoice"} =>
              /\ VotePda(k, s) \notin DOMAIN o.votes
              /\ \A t \in TimePoints, tg2 \in Targets :
                   ( /\ t >= clock
                     /\ o.proposals[k].date_start <= t
                     /\ t < o.proposals[k].date_end
                     /\ FindChoice(o.proposals[k].votes, tg2) # 0 ) =>
                        LET again == InitializeVote(o.proposals, o.votes, t, s, k, tg2)
                        IN  again # {} /\ \A o2 \in again : o2.result = "Ok"

\* C5 witness: a cast_vote failed with InvalidChoice on the only proposal,
\* inside its window, and there is no VoteRecord.
C5_Witness ==
    /\ res = Res("cast_vote", "InvalidChoice")
    /\ votes = <<>>
    /\ \E k \in ProposalKeys :
         /\ DOMAIN proposals = {k}
         /\ proposals[k].date_start <= clock
         /\ clock < proposals[k].date_end

\* C6: delete_proposal of an existing proposal by a signer who is not its
\* creator fails with NotAuthorized at every clock reading, before, during
\* and after the window and after the grace period, and changes no account.
C6_OnlyCreatorDeletes ==
    \A k \in DOMAIN proposals, s \in Users, t \in TimePoints :
        s # proposals[k].creator =>
            DeleteProposal(proposals, votes, t, s, k) =
                Outcome("NotAuthorized", proposals, votes)

\* C6 witness: a delete_proposal was refused with NotAuthorized on the only
\* proposal after its grace period had run out.
C6_Witness ==
    /\ res = Res("delete_proposal", "NotAuthorized")
    /\ \E k \in ProposalKeys :
         /\ DOMAIN proposals = {k}
         /\ clock - proposals[k].date_end >= THIRTY_DAYS

\* C7: delete_proposal of an existing proposal by its creator at clock
\* reading t fails with VoteNotEnded when t <= date_end, fails with
\* TooRecentToDelete when 0 < t - date_end < THIRTY_DAYS, and succeeds when
\* t - date_end >= THIRTY_DAYS; a failure changes no account, a success
\* frees the proposal's address and changes nothing else.
C7_DeleteTiming ==
    \A k \in DOMAIN proposals, t \in TimePoints :
        LET p == proposals[k]
            o == DeleteProposal(proposals, votes, t, p.creator, k)
        IN  /\ t <= p.date_end =>
                 o = Outcome("VoteNotEnded", proposals, votes)
            /\ (0 < t - p.date_end /\ t - p.date_end < THIRTY_DAYS) =>
                 o = Outcome("TooRecentToDelete", proposals, votes)
            /\ t - p.date_end >= THIRTY_DAYS =>
                 /\ o.result = "Ok"
                 /\ k \notin DOMAIN o.proposals
                 /\ DOMAIN o.proposals = (DOMAIN proposals) \ {k}
                 /\ \A k2 \in DOMAIN o.proposals : o.proposals[k2] = proposals[k2]
                 /\ o.votes = votes

\* C7 witness: a delete_proposal has succeeded exactly THIRTY_DAYS after a
\* date_end of 0, and no proposal is left.
C7_Witness ==
    /\ res = Res("delete_proposal", "Ok")
    /\ clock = THIRTY_DAYS
    /\ proposals = <<>>

\* C8 (as claimed): every existing proposal has 2 to 5 choices and
\* date_start <= date_end; every create_proposal with fewer than 2 or more
\* than 5 choices fails with InvalidNumberOfChoices, every create_proposal
\* with date_start > date_end (and a legal number of choices, the check
\* that comes first) fails with DateNotConform, neither creates a proposal;
\* a successful one stores the caller's choices in order with count 0.
C8_AsClaimed ==
    /\ \A k \in DOMAIN proposals :
         /\ Len(proposals[k].votes) >= 2
         /\ Len(proposals[k].votes) <= 5
         /\ proposals[k].date_start <= proposals[k].date_end
    /\ \A s \in Users, t \in Titles, d \in Descriptions, c \in ChoiceLists,
          ds \in Dates, de \in Dates :
         LET o == CreateNow(s, t, d, c, ds, de)
         IN  /\ (Len(c) < 2 \/ Len(c) > 5) =>
                  o = Outcome("InvalidNumberOfChoices", proposals, votes)
             /\ (Len(c) >= 2 /\ Len(c) <= 5 /\ ds > de) =>
                  o = Outcome("DateNotConform", proposals, votes)
             /\ o.result = "Ok" =>
                  o.proposals[ProposalPda(t)].votes = [i \in 1..Len(c) |-> Choice(c[i], 0)]

\* C8 (amended): every existing proposal has 2 to 5 choices and
\* date_start <= date_end.  A create_proposal for a title that is not in use
\* fails with InvalidNumberOfChoices when it has fewer than 2 or more than 5
\* choices, fails with DateNotConform when the number of choices is legal
\* and date_start > date_end, and succeeds otherwise; for a title in use it
\* fails with the allocation conflict.  A failure creates no proposal; a
\* success stores the caller's choices in order with count 0.
C8_ChoicesAndDates ==
    /\ \A k \in DOMAIN proposals :
         /\ Len(proposals[k].votes) >= 2
         /\ Len(proposals[k].votes) <= 5
         /\ proposals[k].date_start <= proposals[k].date_end
    /\ \A s \in Users, t \in Titles, d \in Descriptions, c \in ChoiceLists,
          ds \in Dates, de \in Dates :
         LET o == CreateNow(s, t, d, c, ds, de)
             badLen == Len(c) < 2 \/ Len(c) > 5
         IN  o = IF ProposalPda(t) \in DOMAIN proposals
                 THEN Outcome("AccountAlreadyInUse", proposals, votes)
                 ELSE IF badLen
                 THEN Outcome("InvalidNumberOfChoices", proposals, votes)
                 ELSE IF ds > de
                 THEN Outcome("DateNotConform", proposals, votes)
                 ELSE Outcome("Ok",
                              Put(proposals, ProposalPda(t),
                                  Proposal(d, t, [i \in 1..Len(c) |-> Choice(c[i], 0)],
                                           ds, de, s)),
                              votes)

\* C8 witness: a create_proposal has succeeded, and a proposal with five
\* choices, all with count 0, exists next to one with two choices.
C8_Witness ==
    /\ res = Res("create_proposal", "Ok")
    /\ \E k1, k2 \in DOMAIN proposals :
         /\ Len(proposals[k1].votes) = 5
         /\ SumCounts(proposals[k1].votes) = 0
         /\ Len(proposals[k2].votes) = 2

\* C9: a successful cast_vote for choice name n adds exactly 1 to the count
\* of exactly one choice of the proposal, a choice named n, and leaves every
\* other choice of that proposal and every other proposal as they were.
C9_OneCountIncremented ==
    \A s \in Users, k \in ProposalKeys, tg \in Targets :
        \A o \in CastVoteNow(s, k, tg) :
            o.result = "Ok" =>
              /\ DOMAIN o.proposals = DOMAIN proposals
              /\ \A k2 \in (DOMAIN proposals) \ {k} : o.proposals[k2] = proposals[k2]
              /\ LET old == proposals[k].votes
                     new == o.proposals[k].votes
                 IN  /\ o.proposals[k] = [proposals[k] EXCEPT !.votes = new]
                     /\ Len(new) = Len(old)
                     /\ \E i \in 1..Len(old) :
                          /\ old[i].name = tg
                          /\ new[i] = Choice(tg, old[i].count + 1)
                          /\ \A j \in (1..Len(old)) \ {i} : new[j] = old[j]

\* C9 witness: a cast_vote for "A" has succeeded on a proposal that has two
\* choices named "A", of which one has count 1 and the other count 0, while
\* another proposal exists.
C9_Witness ==
    /\ res = Res("cast_vote", "Ok")
    /\ Cardinality(DOMAIN proposals) = 2
    /\ \E k \in DOMAIN proposals :
         /\ Len(proposals[k].votes) = 5
         /\ Counts(proposals[k].votes) = <<1, 0, 0, 0, 0>>

\* Both transactions of the pool have run, each at a clock reading inside
\* the window, and the window is still open.
RaceDone ==
    /\ pool # NoRace
    /\ \A i \in DOMAIN pool.txs : pool.txs[i].status # "pending" /\ pool.txs[i].open
    /\ pool.txs[1].proposal \in DOMAIN proposals
    /\ VoteNotOver(proposals[pool.txs[1].proposal], clock)

\* The number of successful transactions of the pool that name a choice
\* which cast_vote resolves to position i of the choices vts.
Counted(vts, i) ==
    Cardinality({ j \in DOMAIN pool.txs :
                    pool.txs[j].status = "Ok" /\ FindChoice(vts, pool.txs[j].target) = i })

\* C10 (specification SpecConc): two cast_vote transactions on one proposal,
\* each valid on its own, are in flight together and run in either order.
\* With the same signer exactly one succeeds, the other fails with the
\* allocation conflict, and the counts grow by 1 in total; with two signers
\* both succeed.  In both cases every count is its value at submission plus
\* the number of successful transactions for that choice: no increment is
\* lost.
C10_ConcurrentVotes ==
    RaceDone =>
        LET a    == pool.txs[1]
            b    == pool.txs[2]
            now  == proposals[a.proposal].votes
        IN  /\ a.signer = b.signer =>
                 /\ {a.status, b.status} = {"Ok", "AccountAlreadyInUse"}
                 /\ SumCounts(now) = SumCounts(pool.before) + 1
            /\ a.signer # b.signer =>
                 /\ a.status = "Ok" /\ b.status = "Ok"
                 /\ SumCounts(now) = SumCounts(pool.before) + 2
            /\ Len(now) = Len(pool.before)
            /\ \A i \in 1..Len(now) :
                 now[i] = Choice(pool.before[i].name,
                                 pool.before[i].count + Counted(pool.before, i))

\* C10 witness: one signer's two transactions, for two different choices,
\* have both run inside the window; the second to run was refused.
C10_Witness ==
    /\ RaceDone
    /\ res = Res("cast_vote", "AccountAlreadyInUse")
    /\ pool.txs[1].signer = pool.txs[2].signer
    /\ pool.txs[1].target # pool.txs[2].target

\* Two signers' transactions for the same choice have both run inside the
\* window.
C10_WitnessTwoVoters ==
    /\ RaceDone
    /\ res = Res("cast_vote", "Ok")
    /\ pool.txs[1].signer # pool.txs[2].signer
    /\ pool.txs[1].target = pool.txs[2].target

----------------------------------------------------------------------------
(* C11 .. C20                                                              *)

\* C11: a proposal stops existing only through a successful delete_proposal
\* on it, signed by its creator, at a clock reading of at least date_end +
\* THIRTY_DAYS.  From every state, no create_proposal and no cast_vote
\* (successful or failed, on this or on another proposal) removes or
\* replaces an existing proposal, and a delete_proposal after which the
\* proposal is gone is the successful one described; and in every step the
\* program takes, a proposal that is gone after the step was deleted by a
\* successful delete_proposal no earlier than date_end + THIRTY_DAYS.
C11_OnlyDeleteRemoves ==
    /\ [](\A k \in DOMAIN proposals :
            /\ \A s \in Users, t \in Titles, d \in Descriptions, c \in ChoiceLists,
                  ds \in Dates, de \in Dates :
                 LET o == CreateNow(s, t, d, c, ds, de)
                 IN  k \in DOMAIN o.proposals /\ o.proposals[k] = proposals[k]
            /\ \A s \in Users, k2 \in ProposalKeys, tg \in Targets :
                 \A o \in CastVoteNow(s, k2, tg) :
                    /\ k \in DOMAIN o.proposals
                    /\ (k2 # k \/ o.result # "Ok") => o.proposals[k] = proposals[k]
            /\ \A s \in Users, k2 \in ProposalKeys :
                 LET o == DeleteNow(s, k2)
                 IN  IF k \in DOMAIN o.proposals
                     THEN o.proposals[k] = proposals[k]
                     ELSE /\ k2 = k
                          /\ o.result = "Ok"
                          /\ s = proposals[k].creator
                          /\ clock >= proposals[k].date_end + THIRTY_DAYS)
    /\ [][\A k \in DOMAIN proposals :
            k \notin DOMAIN proposals' =>
                /\ res' = Res("delete_proposal", "Ok")
                /\ clock >= proposals[k].date_end + THIRTY_DAYS
                /\ proposals' = Drop(proposals, k)]_vars

\* C11 witness: a delete_proposal has just succeeded on a proposal that
\* holds votes (their VoteRecords are still there); the other proposal is old
\* enough to be deleted too and is still there.
C11_Witness ==
    /\ res = Res("delete_proposal", "Ok")
    /\ \E k \in DOMAIN proposals :
         /\ DOMAIN proposals = {k}
         /\ clock >= proposals[k].date_end + THIRTY_DAYS
         /\ \E k2 \in ProposalKeys \ {k} : Voters(votes, k2) # {}

\* C12 (as claimed): in every reachable state the VoteRecord at the address
\* derived from proposal address k and voter s holds voter = s, a choice
\* name that was passed to cast_vote, and proposal = k.
C12_RecordHoldsVote ==
    \A s \in Users, k \in ProposalKeys :
        VotePda(k, s) \in DOMAIN votes =>
            /\ votes[VotePda(k, s)].voter = s
            /\ votes[VotePda(k, s)].choice \in Targets
            /\ votes[VotePda(k, s)].proposal = k

\* C13 (as claimed): in every existing proposal the choice names are pairwise
\* distinct, so a name passed to cast_vote identifies at most one choice.
C13_DistinctChoiceNames ==
    \A k \in DOMAIN proposals :
        \A i, j \in 1..Len(proposals[k].votes) :
            proposals[k].votes[i].name = proposals[k].votes[j].name => i = j

\* C14 (as claimed, specification SpecBusy): while a proposal exists no step
\* makes the count of any of its choices smaller, also not a cast_vote for a
\* choice whose count is U16_MAX.
C14_CountsNeverDecrease ==
    [][\A k \in (DOMAIN proposals) \cap (DOMAIN proposals') :
         \A i \in (DOMAIN proposals[k].votes) \cap (DOMAIN proposals'[k].votes) :
            proposals'[k].votes[i].count >= proposals[k].votes[i].count]_vars

\* C15: from creation to deletion a proposal's creator, title, description,
\* date_start, date_end, number of choices and the name at each position
\* never change; the only change is to a count, and only a successful
\* cast_vote on that proposal makes it.  Stated for every transaction that
\* can be sent from every state (any signer, any arguments, on this or on
\* another proposal, successful or failed), and for every step taken.
C15_OnlyCountsChange ==
    /\ [](\A k \in DOMAIN proposals :
            /\ \A s \in Users, t \in Titles, d \in Descriptions, c \in ChoiceLists,
                  ds \in Dates, de \in Dates :
                 CreateNow(s, t, d, c, ds, de).proposals[k] = proposals[k]
            /\ \A s \in Users, k2 \in ProposalKeys :
                 k \in DOMAIN DeleteNow(s, k2).proposals =>
                    DeleteNow(s, k2).proposals[k] = proposals[k]
            /\ \A s \in Users, k2 \in ProposalKeys, tg \in Targets :
                 \A o \in CastVoteNow(s, k2, tg) :
                    /\ SameButCounts(proposals[k], o.proposals[k])
                    /\ (k2 # k \/ o.result # "Ok") => o.proposals[k] = proposals[k])
    /\ [][\A k \in (DOMAIN proposals) \cap (DOMAIN proposals') :
            /\ SameButCounts(proposals[k], proposals'[k])
            /\ proposals'[k] # proposals[k] => res' = Res("cast_vote", "Ok")]_vars

\* C15 witness: a cast_vote has just succeeded on a proposal that now holds
\* two votes, while a second proposal exists.
C15_Witness ==
    /\ res = Res("cast_vote", "Ok")
    /\ Cardinality(DOMAIN proposals) = 2
    /\ \E k \in DOMAIN proposals : SumCounts(proposals[k].votes) = 2

\* C16: a VoteRecord, once created, is there unchanged in every later state.
\* No transaction that can be sent from any state removes or rewrites a
\* VoteRecord; a successful delete_proposal removes the proposal and leaves
\* all VoteRecords, those derived from its address included; and no step
\* taken removes or rewrites one.
C16_VoteRecordsStay ==
    /\ [](/\ \A o \in AllOutcomesNow :
               \A a \in DOMAIN votes : a \in DOMAIN o.votes /\ o.votes[a] = votes[a]
          /\ \A s \in Users, k \in ProposalKeys :
               DeleteNow(s, k).result = "Ok" =>
                  /\ DeleteNow(s, k).votes = votes
                  /\ DeleteNow(s, k).proposals = Drop(proposals, k))
    /\ [][\A a \in DOMAIN votes : a \in DOMAIN votes' /\ votes'[a] = votes[a]]_vars

\* C16 witness: a delete_proposal has just succeeded on a proposal both users
\* voted on; no proposal is left and their two VoteRecords are.
C16_Witness ==
    /\ res = Res("delete_proposal", "Ok")
    /\ proposals = <<>>
    /\ \E k \in ProposalKeys : Voters(votes, k) = Users

\* C17: once a proposal that holds votes has been deleted, a create_proposal
\* with the same title and legal arguments succeeds, by any signer, at the
\* same address, with every count 0 and the old VoteRecords still in place;
\* and on an existing proposal every signer with a VoteRecord at the address
\* derived from (proposal address, signer), a voter on an earlier proposal of
\* the same title included, is refused with the allocation conflict of the
\* vote account on every cast_vote, whatever the choice and the clock reading.
C17_OldVotersLockedOut ==
    /\ \A t \in Titles :
         (ProposalPda(t) \notin DOMAIN proposals /\ Voters(votes, ProposalPda(t)) # {}) =>
            \A s \in Users, d \in Descriptions, c \in ChoiceLists, ds \in Dates, de \in Dates :
                (ChoicesLenOk(c) /\ DatesConform(ds, de)) =>
                    LET o == CreateNow(s, t, d, c, ds, de)
                    IN  /\ o.result = "Ok"
                        /\ DOMAIN o.proposals = DOMAIN proposals \cup {ProposalPda(t)}
                        /\ o.proposals[ProposalPda(t)].title = t
                        /\ o.proposals[ProposalPda(t)].creator = s
                        /\ Len(o.proposals[ProposalPda(t)].votes) = Len(c)
                        /\ \A i \in 1..Len(c) :
                             o.proposals[ProposalPda(t)].votes[i] = Choice(c[i], 0)
                        /\ o.votes = votes
    /\ \A k \in DOMAIN proposals :
         \A s \in Voters(votes, k), tg \in Targets, now \in TimePoints :
            InitializeVote(proposals, votes, now, s, k, tg) =
                { Outcome("AccountAlreadyInUse", proposals, votes) }

\* C17 witness: a proposal without any counted vote stands at an address
\* where both users have a VoteRecord (it was created again after a
\* deletion), and a cast_vote has just been refused as a duplicate.
C17_Witness ==
    /\ res = Res("cast_vote", "AccountAlreadyInUse")
    /\ \E k \in DOMAIN proposals :
         /\ DOMAIN proposals = {k}
         /\ SumCounts(proposals[k].votes) = 0
         /\ Voters(votes, k) = Users

\* C18: closing is permanent.  The clock never goes backwards; once it has
\* reached a proposal's date_end, no cast_vote on that proposal succeeds, at
\* the current or at any later clock reading, by any signer for any choice,
\* and every step that leaves the proposal in place leaves its choices, the
\* counts included, as they are.
C18_ClosingIsPermanent ==
    /\ [][clock' >= clock]_vars
    /\ [](\A k \in DOMAIN proposals :
            clock >= proposals[k].date_end =>
                \A s \in Users, tg \in Targets, now \in TimePoints :
                    now >= clock =>
                        \A o \in InitializeVote(proposals, votes, now, s, k, tg) :
                            o.result # "Ok" /\ o.proposals = proposals)
    /\ [][\A k \in (DOMAIN proposals) \cap (DOMAIN proposals') :
            clock >= proposals[k].date_end =>
                /\ proposals'[k].votes = proposals[k].votes
                /\ clock' >= proposals'[k].date_end]_vars

\* C18 witness: a cast_vote has just been refused with VoteClosed on a
\* proposal that holds a counted vote, at the very second of its date_end.
C18_Witness ==
    /\ res = Res("cast_vote", "VoteClosed")
    /\ \E k \in DOMAIN proposals :
         /\ DOMAIN proposals = {k}
         /\ clock = proposals[k].date_end
         /\ SumCounts(proposals[k].votes) = 1
         /\ Cardinality(Voters(votes, k)) = 1

C20_EventuallyDeletable ==
    /\ \A k \in ProposalKeys :
         [](k \in DOMAIN proposals =>
              <>(k \notin DOMAIN proposals \/ Deletable(proposals, votes, clock, k)))
    /\ [](\A k \in ProposalKeys :
            Deletable(proposals, votes, clock, k) =>
                \A now \in TimePoints :
                    now >= clock => Deletable(proposals, votes, now, k))
    /\ [][\A k \in ProposalKeys :
            (Deletable(proposals, votes, clock, k) /\ k \in DOMAIN proposals') =>
                Deletable(proposals', votes', clock', k)]_vars

\* C20 witness: the clock has just moved to the first reading at which the
\* creator can delete a proposal that holds a vote; a second before it could
\* not.
C20_Witness ==
    /\ res = Res("tick", "")
    /\ \E k \in DOMAIN proposals :
         /\ Deletable(proposals, votes, clock, k)
         /\ ~Deletable(proposals, votes, clock - 1, k)
         /\ SumCounts(proposals[k].votes) > 0

====
